---- MODULE Spec2Model ----
(***************************************************************************)
(* State machine of the root App component (src/unnamed/part_000): its six *)
(* useState cells, the generation requests and file reads in flight, and   *)
(* one action per event handler or asynchronous continuation.              *)
(*                                                                         *)
(* A nullable value (T | null) is None or Some(v).  Each handler runs to   *)
(* its first await as one step; the continuation after the await is a      *)
(* second step taken when the promise settles.                             *)
(***************************************************************************)
EXTENDS Naturals, Sequences, FiniteSets

VARIABLES prompt, inputImage, generatedImage, isLoading, error, editingImage,
          requests, reads, lastEvent

vars == <<prompt, inputImage, generatedImage, isLoading, error, editingImage,
          requests, reads, lastEvent>>

\* The six useState cells of App.
appState == <<prompt, inputImage, generatedImage, isLoading, error, editingImage>>

---------------------------------------------------------------------------
\* Bounds of the model.

\* File reads that may be outstanding at once.
MaxPendingReads == 1
\* Generation requests that may be outstanding at once (the model's cap on
\* the calls that start one; the submit control allows one).
MaxInFlight == 2

---------------------------------------------------------------------------
\* Input domains.

\* Values of the prompt textarea; "" is the initial, empty prompt.
Prompts == {"", "cat", "dog"}
\* Base64 payloads the service can resolve with.
Payloads == {"QUJD", "REVG"}
\* Images the editor can emit through onSave (InputImage).
InputImages == {[base64 |-> "QUJD", mimeType |-> "image/png"],
                [base64 |-> "REVG", mimeType |-> "image/jpeg"]}
\* Files the user can pick: the MIME type (file.type, "" when the browser
\* knows none) and the Base64 form of the content.
Files == {[type |-> "image/jpeg", base64 |-> "REVG"],
          [type |-> "", base64 |-> "QUJD"]}
\* Message texts an Error thrown by the service can carry.
ErrorMessages == {"", "quota exceeded"}
\* What the service promise can reject with: an Error, or any other value.
Failures == {[isError |-> TRUE, message |-> m] : m \in ErrorMessages}
              \cup {[isError |-> FALSE, message |-> ""]}

---------------------------------------------------------------------------
\* Nullable values and JavaScript truthiness.

None == [some |-> FALSE]
Some(v) == [some |-> TRUE, val |-> v]

\* !s is true of null and of the empty string.
TruthyStr(s) == s.some /\ s.val # ""
\* An object reference is truthy unless null.
TruthyObj(o) == o.some

---------------------------------------------------------------------------
\* Pure helpers.

\* `data:${image.mimeType};base64,${image.base64}`
ImageSrc(image) == "data:" \o image.mimeType \o ";base64," \o image.base64

\* FileReader.readAsDataURL: the data URL of the file's content, under
\* application/octet-stream when the file has no type.
fileToDataUrl(file) ==
  "data:" \o (IF file.type = "" THEN "application/octet-stream" ELSE file.type)
          \o ";base64," \o file.base64

\* `data:image/png;base64,${imageB64}`
PngDataUrl(imageB64) == "data:image/png;base64," \o imageB64

EmptyPromptMsg == "Please enter a prompt to generate an image."
FileReadErrorMsg == "Error reading the selected file."
UnknownErrorMsg == "An unknown error occurred."

\* CatchMessage with the message surfaced verbatim.
CatchMessage_Verbatim(err) ==
  IF err.isError /\ err.message # "" THEN err.message
  ELSE UnknownErrorMsg

\* The catch clause of handleSubmit.
CatchMessage(err) ==
  IF err.isError THEN "An error occurred: " \o err.message
  ELSE UnknownErrorMsg

\* s with its i-th element removed.
RemoveAt(s, i) == SubSeq(s, 1, i - 1) \o SubSeq(s, i + 1, Len(s))

Event(name, arg) == [name |-> name, arg |-> arg]

---------------------------------------------------------------------------
\* The rendered view, as functions of the state.

\* SubmitDisabled without the isLoading disjunct.
SubmitDisabled_IgnoresLoading == ~TruthyStr(Some(prompt))

\* SubmitDisabled also while an error is set.
SubmitDisabled_WhileError ==
  isLoading \/ ~TruthyStr(Some(prompt)) \/ TruthyStr(error)

\* disabled={isLoading || !prompt}
SubmitDisabled == isLoading \/ ~TruthyStr(Some(prompt))

\* The three conditional blocks of the output panel.
ShowsLoading == isLoading /\ ~TruthyStr(generatedImage)
ShowsError == ~isLoading /\ TruthyStr(error)
ShowsImageDisplay == ~isLoading /\ ~TruthyStr(error)

---------------------------------------------------------------------------
Init ==
  /\ prompt = ""
  /\ inputImage = None
  /\ generatedImage = None
  /\ isLoading = FALSE
  /\ error = None
  /\ editingImage = None
  /\ requests = <<>>
  /\ reads = <<>>
  /\ lastEvent = Event("init", "")

\* onChange={(e) => setPrompt(e.target.value)}
setPrompt(value) ==
  /\ value # prompt
  /\ prompt' = value
  /\ lastEvent' = Event("setPrompt", "")
  /\ UNCHANGED <<inputImage, generatedImage, isLoading, error, editingImage,
                 requests, reads>>

\* handleImageSelect without setGeneratedImage(null).
handleImageSelect_KeepsGenerated(image) ==
  /\ inputImage' = Some(image)
  /\ UNCHANGED generatedImage

\* handleImageSelect, as a state update.
handleImageSelect(image) ==
  /\ inputImage' = Some(image)
  /\ generatedImage' = None

\* The remove control of ImagePreview, rendered while inputImage is set.
handleImageClear ==
  /\ TruthyObj(inputImage)
  /\ inputImage' = None
  /\ lastEvent' = Event("handleImageClear", "")
  /\ UNCHANGED <<prompt, generatedImage, isLoading, error, editingImage,
                 requests, reads>>

\* The edit control of ImagePreview, rendered while inputImage is set.
handleEditClick ==
  /\ TruthyObj(inputImage)
  /\ IF TruthyObj(inputImage)
       THEN editingImage' = Some([src |-> ImageSrc(inputImage.val),
                                  mimeType |-> inputImage.val.mimeType])
       ELSE UNCHANGED editingImage
  /\ lastEvent' = Event("handleEditClick", "")
  /\ UNCHANGED <<prompt, inputImage, generatedImage, isLoading, error,
                 requests, reads>>

\* handleFileSelected turning the loading flag on for the read.
handleFileSelected_SetsLoading(file) ==
  /\ Len(reads) < MaxPendingReads
  /\ reads' = Append(reads, file)
  /\ isLoading' = TRUE
  /\ lastEvent' = Event("handleFileSelected", "")
  /\ UNCHANGED <<prompt, inputImage, generatedImage, error, editingImage,
                 requests>>

\* handleFileSelected up to its await: the read of the file starts.
handleFileSelected(file) ==
  /\ Len(reads) < MaxPendingReads
  /\ reads' = Append(reads, file)
  /\ lastEvent' = Event("handleFileSelected", "")
  /\ UNCHANGED <<appState, requests>>

\* reader.onload: the await returns the data URL and the editor opens.
FileReadLoaded(i) ==
  /\ i \in 1..Len(reads)
  /\ editingImage' = Some([src |-> fileToDataUrl(reads[i]),
                           mimeType |-> reads[i].type])
  /\ reads' = RemoveAt(reads, i)
  /\ lastEvent' = Event("fileReadLoaded", "")
  /\ UNCHANGED <<prompt, inputImage, generatedImage, isLoading, error, requests>>

\* FileReadFailed also resetting the loading flag.
FileReadFailed_ResetsLoading(i) ==
  /\ i \in 1..Len(reads)
  /\ error' = Some(FileReadErrorMsg)
  /\ isLoading' = FALSE
  /\ reads' = RemoveAt(reads, i)
  /\ lastEvent' = Event("fileReadFailed", "")
  /\ UNCHANGED <<prompt, inputImage, generatedImage, editingImage, requests>>

\* reader.onerror: the await throws and the catch clause reports it.
FileReadFailed(i) ==
  /\ i \in 1..Len(reads)
  /\ error' = Some(FileReadErrorMsg)
  /\ reads' = RemoveAt(reads, i)
  /\ lastEvent' = Event("fileReadFailed", "")
  /\ UNCHANGED <<prompt, inputImage, generatedImage, isLoading, editingImage,
                 requests>>

\* EditorSave without setEditingImage(null).
EditorSave_KeepsEditorOpen(editedImage) ==
  /\ TruthyObj(editingImage)
  /\ handleImageSelect(editedImage)
  /\ lastEvent' = Event("onSave", ImageSrc(editedImage))
  /\ UNCHANGED <<prompt, isLoading, error, editingImage, requests, reads>>

\* EditorCancel also dropping the attached image.
EditorCancel_ClearsInput ==
  /\ TruthyObj(editingImage)
  /\ editingImage' = None
  /\ inputImage' = None
  /\ lastEvent' = Event("onCancel", "")
  /\ UNCHANGED <<prompt, generatedImage, isLoading, error, requests, reads>>

\* onCancel of the ImageEditor, rendered while editingImage is set.
EditorCancel ==
  /\ TruthyObj(editingImage)
  /\ editingImage' = None
  /\ lastEvent' = Event("onCancel", "")
  /\ UNCHANGED <<prompt, inputImage, generatedImage, isLoading, error,
                 requests, reads>>

\* onSave of the ImageEditor, rendered while editingImage is set.
EditorSave(editedImage) ==
  /\ TruthyObj(editingImage)
  /\ handleImageSelect(editedImage)
  /\ editingImage' = None
  /\ lastEvent' = Event("onSave", ImageSrc(editedImage))
  /\ UNCHANGED <<prompt, isLoading, error, requests, reads>>

\* handleSubmit without setGeneratedImage(null).
handleSubmit_KeepsImage ==
  /\ IF ~TruthyStr(Some(prompt))
       THEN /\ error' = Some(EmptyPromptMsg)
            /\ UNCHANGED <<generatedImage, isLoading, requests>>
       ELSE /\ isLoading' = TRUE
            /\ error' = None
            /\ UNCHANGED generatedImage
            /\ requests' = Append(requests,
                                  [prompt |-> prompt, inputImage |-> inputImage])
  /\ lastEvent' = Event("handleSubmit", "")
  /\ UNCHANGED <<prompt, inputImage, editingImage, reads>>

\* handleSubmit calling the service without the attached image.
handleSubmit_NullImage ==
  /\ IF ~TruthyStr(Some(prompt))
       THEN /\ error' = Some(EmptyPromptMsg)
            /\ UNCHANGED <<generatedImage, isLoading, requests>>
       ELSE /\ isLoading' = TRUE
            /\ error' = None
            /\ generatedImage' = None
            /\ requests' = Append(requests,
                                  [prompt |-> prompt, inputImage |-> None])
  /\ lastEvent' = Event("handleSubmit", "")
  /\ UNCHANGED <<prompt, inputImage, editingImage, reads>>

\* handleSubmit without the empty-prompt check.
handleSubmit_NoPromptCheck ==
  /\ isLoading' = TRUE
  /\ error' = None
  /\ generatedImage' = None
  /\ requests' = Append(requests, [prompt |-> prompt, inputImage |-> inputImage])
  /\ lastEvent' = Event("handleSubmit", "")
  /\ UNCHANGED <<prompt, inputImage, editingImage, reads>>

\* handleSubmit clearing generatedImage before the empty-prompt check.
handleSubmit_ClearsBeforeCheck ==
  /\ generatedImage' = None
  /\ IF ~TruthyStr(Some(prompt))
       THEN /\ error' = Some(EmptyPromptMsg)
            /\ UNCHANGED <<isLoading, requests>>
       ELSE /\ isLoading' = TRUE
            /\ error' = None
            /\ requests' = Append(requests,
                                  [prompt |-> prompt, inputImage |-> inputImage])
  /\ lastEvent' = Event("handleSubmit", "")
  /\ UNCHANGED <<prompt, inputImage, editingImage, reads>>

\* handleSubmit up to its await: the empty-prompt return, or the three state
\* updates and the call of generateOrEnhanceImage(prompt, inputImage).
handleSubmit ==
  /\ IF ~TruthyStr(Some(prompt))
       THEN /\ error' = Some(EmptyPromptMsg)
            /\ UNCHANGED <<generatedImage, isLoading, requests>>
       ELSE /\ isLoading' = TRUE
            /\ error' = None
            /\ generatedImage' = None
            /\ requests' = Append(requests,
                                  [prompt |-> prompt, inputImage |-> inputImage])
  /\ lastEvent' = Event("handleSubmit", "")
  /\ UNCHANGED <<prompt, inputImage, editingImage, reads>>

\* A click on the submit button, which the browser delivers only while the
\* button is not disabled.
ClickSubmit ==
  /\ ~SubmitDisabled
  /\ TruthyStr(Some(prompt)) => Len(requests) < MaxInFlight
  /\ handleSubmit

\* handleSubmit called although the button is disabled (the handler invoked
\* directly, as a test of the handler does).
InvokeSubmit ==
  /\ SubmitDisabled
  /\ TruthyStr(Some(prompt)) => Len(requests) < MaxInFlight
  /\ handleSubmit

\* RequestResolved with setIsLoading(false) left out of the success path.
RequestResolved_KeepsLoading(i, imageB64) ==
  /\ i \in 1..Len(requests)
  /\ generatedImage' = Some(PngDataUrl(imageB64))
  /\ requests' = RemoveAt(requests, i)
  /\ lastEvent' = Event("resolved", imageB64)
  /\ UNCHANGED <<prompt, inputImage, isLoading, error, editingImage, reads>>

\* RequestResolved also clearing the prompt.
RequestResolved_ClearsPrompt(i, imageB64) ==
  /\ i \in 1..Len(requests)
  /\ generatedImage' = Some(PngDataUrl(imageB64))
  /\ isLoading' = FALSE
  /\ prompt' = ""
  /\ requests' = RemoveAt(requests, i)
  /\ lastEvent' = Event("resolved", imageB64)
  /\ UNCHANGED <<inputImage, error, editingImage, reads>>

\* The await of request i returns imageB64: the try block ends, then finally.
RequestResolved(i, imageB64) ==
  /\ i \in 1..Len(requests)
  /\ generatedImage' = Some(PngDataUrl(imageB64))
  /\ isLoading' = FALSE
  /\ requests' = RemoveAt(requests, i)
  /\ lastEvent' = Event("resolved", imageB64)
  /\ UNCHANGED <<prompt, inputImage, error, editingImage, reads>>

\* RequestRejected without the finally clause.
RequestRejected_NoFinally(i, err) ==
  /\ i \in 1..Len(requests)
  /\ error' = Some(CatchMessage(err))
  /\ requests' = RemoveAt(requests, i)
  /\ lastEvent' = Event(IF err.isError THEN "rejectedError" ELSE "rejectedOther",
                        err.message)
  /\ UNCHANGED <<prompt, inputImage, generatedImage, isLoading, editingImage,
                 reads>>

\* The await of request i throws err: the catch clause, then finally.
RequestRejected(i, err) ==
  /\ i \in 1..Len(requests)
  /\ error' = Some(CatchMessage(err))
  /\ isLoading' = FALSE
  /\ requests' = RemoveAt(requests, i)
  /\ lastEvent' = Event(IF err.isError THEN "rejectedError" ELSE "rejectedOther",
                        err.message)
  /\ UNCHANGED <<prompt, inputImage, generatedImage, editingImage, reads>>

\* The request settles, either way.
RequestSettles ==
  \E i \in 1..Len(requests) :
    \/ \E imageB64 \in Payloads : RequestResolved(i, imageB64)
    \/ \E err \in Failures : RequestRejected(i, err)

Next ==
  \/ \E value \in Prompts : setPrompt(value)
  \/ handleImageClear
  \/ handleEditClick
  \/ \E file \in Files : handleFileSelected(file)
  \/ \E i \in 1..Len(reads) : FileReadLoaded(i)
  \/ \E i \in 1..Len(reads) : FileReadFailed(i)
  \/ EditorCancel
  \/ \E editedImage \in InputImages : EditorSave(editedImage)
  \/ ClickSubmit
  \/ RequestSettles

\* The application as the user drives it.
Spec == Init /\ [][Next]_vars

\* The application with handleSubmit also called directly.
NextDirect == Next \/ InvokeSubmit
SpecDirect == Init /\ [][NextDirect]_vars

\* The service call eventually resolves or rejects.
SpecLive == Spec /\ WF_vars(RequestSettles)

---------------------------------------------------------------------------
\* Names of the steps, as lastEvent records them.

Rejections == {"rejectedError", "rejectedOther"}
Settlements == {"resolved"} \cup Rejections
\* User events other than a submit.
OtherUserEvents == {"setPrompt", "handleImageClear", "handleEditClick",
                    "handleFileSelected", "onCancel", "onSave"}

---------------------------------------------------------------------------
\* C1: in every reachable state at most one generation request is in flight.
C1_AtMostOneInFlight == Len(requests) <= 1

\* A request is in flight, the prompt is non-empty and the user has gone on
\* acting since the submit.
C1_Witness ==
  /\ Len(requests) = 1
  /\ TruthyStr(Some(prompt))
  /\ lastEvent.name \in OtherUserEvents

\* C2: whenever a request is in flight, the submit control is disabled and the
\* output panel renders the loading indicator.
C2_InFlightDisabledAndIndicator ==
  requests # <<>> => SubmitDisabled /\ ShowsLoading

\* A request is in flight and a file read has failed meanwhile.
C2_Witness ==
  /\ requests # <<>>
  /\ lastEvent.name = "fileReadFailed"
  /\ SubmitDisabled
  /\ ShowsLoading

\* C3: once a request has resolved with payload P, generatedImage is the PNG
\* data URL of P and the output panel displays the image, neither the error
\* panel nor the loading indicator.
C3_ResolvedImageDisplayed ==
  lastEvent.name = "resolved" =>
    /\ generatedImage = Some("data:image/png;base64," \o lastEvent.arg)
    /\ ShowsImageDisplay
    /\ ~ShowsError
    /\ ~ShowsLoading

\* C4: right after a submit with a non-empty prompt, the call just issued
\* carries the prompt and the input image of that moment: null when none is
\* attached, and otherwise that image's Base64 payload and MIME type.
C4_CallCarriesPromptAndImage ==
  (lastEvent.name = "handleSubmit" /\ TruthyStr(Some(prompt))) =>
    /\ requests # <<>>
    /\ requests[Len(requests)].prompt = prompt
    /\ IF inputImage = None
         THEN requests[Len(requests)].inputImage = None
         ELSE /\ requests[Len(requests)].inputImage.some
              /\ requests[Len(requests)].inputImage.val.base64
                   = inputImage.val.base64
              /\ requests[Len(requests)].inputImage.val.mimeType
                   = inputImage.val.mimeType

\* A submit has just been accepted with a JPEG image attached.
C4_Witness ==
  /\ lastEvent.name = "handleSubmit"
  /\ prompt = "dog"
  /\ inputImage = Some([base64 |-> "REVG", mimeType |-> "image/jpeg"])
  /\ Len(requests) = 1
  /\ requests[1].inputImage = inputImage

\* C5: a submit with an empty prompt issues no call to the service, does not
\* move the app into Loading and sets the error to the enter-a-prompt message.
C5_EmptyPromptSubmit ==
  [][(lastEvent'.name = "handleSubmit" /\ prompt = "") =>
        /\ requests' = requests
        /\ (isLoading' => isLoading)
        /\ error' = Some("Please enter a prompt to generate an image.")]_vars

\* handleSubmit has just run with an empty prompt, outside Loading.
C5_Witness ==
  /\ lastEvent.name = "handleSubmit"
  /\ prompt = ""
  /\ requests = <<>>
  /\ ~isLoading
  /\ error = Some(EmptyPromptMsg)

\* C6, as stated: after a failure the error message equals the failure's
\* message text, or the fallback string if the failure carries no message.
C6_MessageVerbatim ==
  lastEvent.name \in Rejections =>
    error = Some(IF lastEvent.arg # "" THEN lastEvent.arg
                 ELSE "An unknown error occurred.")

\* C6, amended: after a failure the error panel shows "An error occurred: "
\* followed by the message text when the failure is an Error, and the fixed
\* string "An unknown error occurred." when it is not an Error.
C6_MessagePrefixed ==
  lastEvent.name \in Rejections =>
    /\ ShowsError
    /\ error = Some(IF lastEvent.name = "rejectedError"
                      THEN "An error occurred: " \o lastEvent.arg
                      ELSE "An unknown error occurred.")

\* A request has just failed with an Error carrying a message.
C6_Witness ==
  /\ lastEvent = Event("rejectedError", "quota exceeded")
  /\ error = Some("An error occurred: quota exceeded")

\* C7: after a request fails, isLoading is false and generatedImage is
\* absent, and generatedImage is set again only by a request that succeeds.
C7_FailureLeavesNoImage ==
  /\ [](lastEvent.name \in Rejections => ~isLoading /\ generatedImage = None)
  /\ [][(generatedImage = None /\ generatedImage' # None) =>
          lastEvent'.name = "resolved"]_vars

\* A request has just failed.
C7_Witness ==
  /\ lastEvent.name \in Rejections
  /\ ~isLoading
  /\ generatedImage = None
  /\ requests = <<>>

\* C8: isLoading is true exactly when a request is in flight; it becomes true
\* only on an accepted submit, false only when the request settles, and no
\* other user action changes it or the request in flight.
C8_LoadingIffInFlight ==
  /\ [](isLoading <=> requests # <<>>)
  /\ [][/\ (~isLoading /\ isLoading') =>
             (lastEvent'.name = "handleSubmit" /\ prompt # ""
                /\ Len(requests') = Len(requests) + 1)
        /\ (isLoading /\ ~isLoading') =>
             (lastEvent'.name \in Settlements
                /\ Len(requests') = Len(requests) - 1)
        /\ lastEvent'.name \notin (Settlements \cup {"handleSubmit"}) =>
             (isLoading' = isLoading /\ requests' = requests)]_vars

\* The user has removed the input image while a request is in flight.
C8_Witness ==
  /\ lastEvent.name = "handleImageClear"
  /\ isLoading
  /\ Len(requests) = 1

\* The app has just left Loading: into Success or into Failed.
Settled ==
  /\ ~isLoading
  /\ \/ lastEvent.name = "resolved" /\ generatedImage # None
     \/ lastEvent.name \in Rejections /\ error # None

\* C9: given that the service call settles, Loading always leads to Success
\* (generatedImage set, isLoading false) or Failed (error set, isLoading
\* false), and from either a submit with a non-empty prompt enters Loading.
C9_LoadingSettlesAndRestarts ==
  /\ isLoading ~> Settled
  /\ []((Settled /\ prompt # "") => ENABLED (ClickSubmit /\ isLoading'))

\* A request has failed and the prompt is still non-empty.
C9_Witness ==
  /\ Settled
  /\ lastEvent.name \in Rejections
  /\ prompt # ""

\* C10: in every reachable state in which isLoading is true, error is absent
\* and generatedImage is absent.
C10_LoadingHasNoErrorNoImage ==
  isLoading => error = None /\ generatedImage = None

\* The views the output panel renders, of its three conditional blocks.
OutputViews ==
  {v \in {"loading", "error", "image"} :
     \/ v = "loading" /\ ShowsLoading
     \/ v = "error" /\ ShowsError
     \/ v = "image" /\ ShowsImageDisplay}

\* C11: the output panel renders exactly one view: the loading indicator when
\* isLoading is true, otherwise the error panel when an error is present,
\* otherwise the generated image or its placeholder.
C11_ExactlyOneViewByPriority ==
  OutputViews = {IF isLoading THEN "loading"
                 ELSE IF error # None /\ error # Some("") THEN "error"
                 ELSE "image"}

\* A request is pending while an error is set: the indicator alone is shown.
C11_Witness ==
  /\ isLoading
  /\ error # None
  /\ OutputViews = {"loading"}

\* Steps of a file read: its start and its two completions.
FileReadEvents == {"handleFileSelected", "fileReadLoaded", "fileReadFailed"}

\* C12, as stated: a file read and a generation request are never pending at
\* the same time.
C12_NeverBothPending == ~(reads # <<>> /\ requests # <<>>)

\* C12, amended: a file read and a generation request may be pending at the
\* same time and are independent: no step of a file read changes isLoading or
\* the request in flight, and no submit or settling of a request changes the
\* file reads outstanding.
C12_ReadAndRequestIndependent ==
  [][/\ lastEvent'.name \in FileReadEvents =>
          (requests' = requests /\ isLoading' = isLoading)
     /\ lastEvent'.name \in (Settlements \cup {"handleSubmit"}) =>
          reads' = reads]_vars

\* A file read and a generation request are pending together.
C12_Witness ==
  /\ reads # <<>>
  /\ requests # <<>>
  /\ isLoading

\* C13: saving a new input image from the editor while a generated image is
\* displayed sets inputImage to the new image and clears generatedImage, so
\* the output panel no longer displays the previous generated image.
C13_SaveClearsGeneratedImage ==
  [][(lastEvent'.name = "onSave" /\ generatedImage # None /\ ShowsImageDisplay) =>
        /\ inputImage'.some
        /\ ImageSrc(inputImage'.val) = lastEvent'.arg
        /\ generatedImage' = None]_vars

\* A generated image is displayed and the editor is open on a picked file,
\* ready to save.
C13_Witness ==
  /\ generatedImage # None
  /\ ShowsImageDisplay
  /\ editingImage = Some([src |-> "data:image/jpeg;base64,REVG",
                          mimeType |-> "image/jpeg"])
  /\ inputImage = None

\* C14: canceling the editor closes it and leaves inputImage as it was,
\* whether the editor was opened from a picked file or from the input image.
C14_CancelKeepsInputImage ==
  [][lastEvent'.name = "onCancel" =>
        /\ editingImage # None
        /\ editingImage' = None
        /\ inputImage' = inputImage]_vars

\* The editor has just been canceled with an input image attached.
C14_Witness ==
  /\ lastEvent.name = "onCancel"
  /\ editingImage = None
  /\ inputImage # None

\* C15: saving from an editor opened on the attached image replaces
\* inputImage with the edited image, closes the editor and leaves the prompt
\* unchanged.
C15_EditSaveReplacesImage ==
  [][(/\ lastEvent'.name = "onSave"
      /\ inputImage # None
      /\ editingImage = Some([src |-> ImageSrc(inputImage.val),
                              mimeType |-> inputImage.val.mimeType])) =>
        /\ inputImage'.some
        /\ ImageSrc(inputImage'.val) = lastEvent'.arg
        /\ editingImage' = None
        /\ prompt' = prompt]_vars

\* The editor is open on the attached image under a non-empty prompt, ready
\* to save.
C15_Witness ==
  /\ lastEvent.name = "handleEditClick"
  /\ inputImage = Some([base64 |-> "QUJD", mimeType |-> "image/png"])
  /\ editingImage = Some([src |-> "data:image/png;base64,QUJD",
                          mimeType |-> "image/png"])
  /\ prompt = "cat"

\* C16: a file-read failure sets the file-read error message and changes
\* nothing else: the editor is not opened, and inputImage, generatedImage,
\* isLoading, the prompt and the request in flight stay as they were.
C16_ReadFailureOnlySetsError ==
  [][lastEvent'.name = "fileReadFailed" =>
        /\ error' = Some("Error reading the selected file.")
        /\ editingImage' = editingImage
        /\ inputImage' = inputImage
        /\ generatedImage' = generatedImage
        /\ isLoading' = isLoading
        /\ prompt' = prompt
        /\ requests' = requests]_vars

\* A file read has just failed during a request, with an image attached and
\* the editor closed.
C16_Witness ==
  /\ lastEvent.name = "fileReadFailed"
  /\ error = Some(FileReadErrorMsg)
  /\ editingImage = None
  /\ inputImage # None
  /\ isLoading
  /\ Len(requests) = 1

\* C17: a submit rejected for an empty prompt leaves isLoading,
\* generatedImage and inputImage unchanged.
C17_EmptySubmitKeepsLoadingAndImages ==
  [][(lastEvent'.name = "handleSubmit" /\ prompt = "") =>
        /\ isLoading' = isLoading
        /\ generatedImage' = generatedImage
        /\ inputImage' = inputImage]_vars

\* handleSubmit has just run with an empty prompt while a generated image and
\* an input image are present.
C17_Witness ==
  /\ lastEvent.name = "handleSubmit"
  /\ prompt = ""
  /\ generatedImage # None
  /\ inputImage # None
  /\ error = Some(EmptyPromptMsg)

\* C18: the prompt changes only in a step of the textarea's onChange; no
\* submit, settling of a request, file selection or read, editor save or
\* cancel, or image removal changes it.
C18_PromptChangedOnlyByTyping ==
  [][prompt' # prompt => lastEvent'.name = "setPrompt"]_vars

\* A request has resolved and the prompt typed by the user is still in place.
C18_Witness ==
  /\ lastEvent.name = "resolved"
  /\ prompt = "dog"
  /\ generatedImage # None

\* C19: generatedImage is written only by the resolution of a request, that
\* request is the only one in flight (so no submit was accepted after it),
\* and while generatedImage is present no later request is pending.
C19_ImageIsOfLatestSubmit ==
  /\ [](generatedImage # None => requests = <<>>)
  /\ [][/\ (generatedImage' # generatedImage /\ generatedImage' # None) =>
             lastEvent'.name = "resolved"
        /\ lastEvent'.name = "resolved" =>
             (Len(requests) = 1 /\ requests' = <<>>
                /\ generatedImage' = Some(PngDataUrl(lastEvent'.arg)))]_vars

\* A generated image is present and the user has gone on acting.
C19_Witness ==
  /\ generatedImage # None
  /\ requests = <<>>
  /\ lastEvent.name \in OtherUserEvents
  /\ prompt # ""

====
